---------------------------- MODULE Spec2Model ----------------------------
(***************************************************************************)
(* The interactive scene of ousbots/playground: the man (theman.rs), the   *)
(* fireplace and the stereo (fireplace.rs, stereo.rs) and the proximity    *)
(* detector (interaction.rs), as the Bevy systems the source registers in  *)
(* the Update schedule.                                                    *)
(*                                                                         *)
(* One action models one run of one system.  The source registers its      *)
(* systems with add_systems(Update, ...) and states no ordering (.chain(), *)
(* .before, .after) between them, so inside a tick the systems run in any  *)
(* order: `ran` holds the systems that have run in the current tick.       *)
(* A specification schedules the systems its claims are about (`sched`);   *)
(* the systems it leaves out write no component that a scheduled system    *)
(* reads, except where an End/Begin action says what it stands for.        *)
(* Commands are deferred to the end of the schedule (EndTick), messages    *)
(* are double buffered and swapped when a tick begins (BeginTick), and a   *)
(* Changed<State> filter is true for a system until that system has run    *)
(* once after the write.                                                   *)
(*                                                                         *)
(* Time is counted in 1/60 s, positions in pixels.                         *)
(***************************************************************************)
EXTENDS Integers, Sequences, FiniteSets

\* ------------------------------------------------------------------ bounds

\* Keyboard edges (a press or a release of one key) delivered in one frame.
MaxKeyEdges == 2

\* The clock's horizon, in 1/60 s, for the specifications whose systems read
\* Time::elapsed.
MaxElapsed == 12

\* The frame time, in 1/60 s: every tick of a behaviour takes the same.
SlowFrame == {8}

QuickFrame == {4}

\* A frame of 250 ms, the longest delta Time<Virtual> hands to Update.
LongFrame == {15}

\* ----------------------------------------------------------- the program

Keys == {"ArrowLeft", "ArrowRight", "ArrowUp"}

Furnishings == {"fireplace", "stereo"}

\* fireplace.rs / stereo.rs: const INTERACTABLE_ID.
INTERACTABLE_ID(f) == f

NoRange == "none"

\* AnimationConfig::new(first, last, fps) of each entity.
AnimationConfig(e) ==
    CASE e = "theman"    -> [first_index |-> 0, last_index |-> 8, fps |-> 10]
      [] e = "fireplace" -> [first_index |-> 0, last_index |-> 4, fps |-> 6]
      [] e = "stereo"    -> [first_index |-> 0, last_index |-> 4, fps |-> 4]

\* A Timer of TimerMode::Once: what it has counted and whether it finished.
NewTimer == [elapsed |-> 0, finished |-> FALSE]

\* AnimationConfig::timer_from_fps: a fresh Once timer of 1/fps seconds.
timer_from_fps(fps) == NewTimer

TimerDuration(fps) == 60 \div fps

Min(a, b) == IF a < b THEN a ELSE b

\* Timer::tick for a Once timer of `dur`: a finished timer stays as it is.
TimerTick(t, d, dur) ==
    IF t.finished THEN t
    ELSE [elapsed |-> Min(t.elapsed + d, dur), finished |-> t.elapsed + d >= dur]

\* Timer::just_finished after the tick that turned t into t2.
JustFinished(t, t2) == ~t.finished /\ t2.finished

NoAtlas == [some |-> FALSE, layout |-> "none", index |-> 0]

Atlas(layout, i) == [some |-> TRUE, layout |-> layout, index |-> i]

VARIABLES
    elapsed,        \* Time::elapsed
    delta,          \* Time::delta of the current tick
    keyboard,       \* ButtonInput<KeyCode>: pressed, just_pressed, just_released
    ran,            \* the systems that have run in the current tick
    phase,          \* "run" inside a tick, "end" between two ticks
    triggers,       \* Messages<Trigger>
    trigCursor,     \* trigger_animation's MessageReader cursor
    events,         \* Messages<InteractionEvent>
    evCursor,       \* handle_interaction's MessageReader cursor
    man,            \* the man's components
    inRange,        \* the man's InRange component (its id, or NoRange)
    highlight,      \* Highlight component of each Interactable
    commands,       \* commands queued by detect_overlaps in this tick
    furn,           \* each furnishing's components
    focus,          \* the entity whose systems are scheduled
    sched,          \* the systems scheduled in this behaviour
    layout,         \* where the furnishings stand
    obs,            \* what the systems did in the current tick (history)
    anim,           \* a frame animator on its own, with any configuration
    removed         \* RemovedComponents<Highlight>, for each Interactable

vars == <<elapsed, delta, keyboard, ran, phase, triggers, trigCursor,
          events, evCursor, man, inRange, highlight, commands, furn, focus,
          sched, layout, obs, anim, removed>>

\* ------------------------------------------------------------ messages

\* Messages<M>: two buffers and the number of messages written; a message's
\* serial is that number when it was written.  Serials are kept relative to
\* the oldest message still buffered (a reader only compares them with its
\* cursor), which keeps them bounded.
NoMessages == [a |-> <<>>, b |-> <<>>, count |-> 0]

\* The serial the update rebases to: that of the oldest message it keeps.
UpdateBase(m) == m.count - Len(m.b)

\* Messages::update, run in First on every frame: the buffers swap and the
\* older one is dropped.
MessagesUpdate(m) ==
    [a |-> [i \in 1..Len(m.b) |-> [m.b[i] EXCEPT !.serial = @ - UpdateBase(m)]],
     b |-> <<>>,
     count |-> m.count - UpdateBase(m)]

\* A reader's cursor, rebased with the buffers.
CursorUpdate(m, cursor) ==
    IF cursor > UpdateBase(m) THEN cursor - UpdateBase(m) ELSE 0

\* MessageWriter::write.
MessagesWrite(m, body) ==
    [m EXCEPT !.b = Append(@, [serial |-> m.count, body |-> body]),
              !.count = @ + 1]

RECURSIVE MessagesWriteAll(_, _)
MessagesWriteAll(m, bodies) ==
    IF bodies = <<>> THEN m
    ELSE MessagesWriteAll(MessagesWrite(m, Head(bodies)), Tail(bodies))

\* MessageReader::read: the messages of both buffers the cursor has not
\* passed, oldest first.
MessagesRead(m, cursor) ==
    SelectSeq(m.a \o m.b, LAMBDA x : x.serial >= cursor)

Bodies(ms) == [i \in 1..Len(ms) |-> ms[i].body]

\* ------------------------------------------------------------ keyboard

\* ButtonInput::press / ButtonInput::release for one device edge of key k.
ApplyEdge(kb, k) ==
    IF k \in kb.pressed
    THEN [kb EXCEPT !.pressed = @ \ {k}, !.just_released = @ \cup {k}]
    ELSE [kb EXCEPT !.pressed = @ \cup {k}, !.just_pressed = @ \cup {k}]

RECURSIVE ApplyEdges(_, _)
ApplyEdges(kb, edges) ==
    IF edges = <<>> THEN kb
    ELSE ApplyEdges(ApplyEdge(kb, Head(edges)), Tail(edges))

\* The input system of a frame: the just_* sets are cleared, then the
\* frame's edges are applied.
KeyboardFrame(kb, edges) ==
    ApplyEdges([pressed |-> kb.pressed, just_pressed |-> {}, just_released |-> {}],
               edges)

\* The edges one frame can deliver when the player uses `keys`.
EdgeSeqs(keys) == UNION {[1..n -> keys] : n \in 0..MaxKeyEdges}

\* ---------------------------------------------------------------- init

\* theman.rs: const WALKING_SPEED, in pixels per second.
WALKING_SPEED == 90

\* theman.rs init: IdleTimer(Timer::from_seconds(5.0, Repeating)), in 1/60 s.
IDLE_PERIOD == 300

\* fireplace.rs / stereo.rs init: the spawned furnishing.
InitFurnishing ==
    [state   |-> "Off",
     image   |-> "off_sprite",
     atlas   |-> NoAtlas,
     timer   |-> timer_from_fps(0),
     first   |-> TRUE,
     sink    |-> "paused",
     look    |-> "neutral",
     changed |-> {"handle_interaction_disable_highlight", "handle_sound"}]

\* theman.rs init: the spawned man, at x.
InitMan(x) ==
    [state     |-> "Idle",
     direction |-> "Right",
     x         |-> x,
     y         |-> -225,
     image     |-> "standing_sprite",
     atlas     |-> Atlas("standing_layout", 0),
     flip_x    |-> FALSE,
     timer     |-> timer_from_fps(0),
     idle      |-> 0,       \* IdleTimer: the time elapsed of its period
     step      |-> [elapsed |-> 0, duration |-> 0],
                            \* StepTimer, in 1/120 s
     footstep  |-> "Left"]

\* The scene as init spawns it: the man at (-200, -225), the fireplace at
\* (0, -170), the stereo at (260, 0).
ShippedLayout ==
    [manX |-> -200, fireplace |-> <<0, -170>>, stereo |-> <<260, 0>>]

\* The shipped furnishings with the man six pixels left of the fireplace's
\* range, where walking right from -200 brings him.
ShippedNear == [ShippedLayout EXCEPT !.manX = -98]

\* The shipped furnishings with the man below the stereo, four pixels left
\* of its centre, where walking right from -200 brings him.
ShippedUnder == [ShippedLayout EXCEPT !.manX = 256]

\* A scene with the stereo on the floor beside the fireplace, and the man
\* in front of the fireplace, six pixels left of the stereo's range.
BesideLayout ==
    [manX |-> -40, fireplace |-> <<0, -170>>, stereo |-> <<100, -170>>]

NoHighlight == [some |-> FALSE, elapsed_offset |-> 0]

NoObs ==
    [read       |-> 0,        \* events handle_interaction read
     matching   |-> 0,        \* those of them with the furnishing's id
     before     |-> "Off",    \* the furnishing's state when it read them
     sinkBefore |-> "paused", \* and its sink
     moved      |-> FALSE,    \* handle_animations moved the atlas index
     wasRunning |-> FALSE,    \* it was Running when an earlier tick ended
     pending    |-> <<>>,     \* events written and not yet read
     seenX      |-> 0,        \* the man's x in the detect_overlaps pass
     seenRange  |-> NoRange,  \* the InRange id the pass read
     found      |-> NoRange,  \* the overlap the pass found
     lastNear   |-> NoRange,  \* the last Interactable within reach, in the
                              \* pass's iteration order
     still      |-> FALSE,    \* the animation system found its entity Idle
                              \* or Off
     sinceIdle  |-> 0,        \* time since the man last entered Idle,
                              \* from the start of the frame he did
     flipped    |-> FALSE,    \* idle_action flipped the sprite
     near       |-> {},       \* the Interactables within reach in the pass
     prevNear   |-> {},       \* and in the pass of the tick before
     walked     |-> 0,        \* time handle_movement found him Walking
                              \* Right, less the time Walking Left
     lastPool   |-> "none",   \* the pool of the last footstep sound spawned
     resumed    |-> FALSE]    \* handle_audio spawned a sound on the expiry
                              \* of the delay an interruption had set

\* The animator of the specifications that are about the scene.
NoAnim == [kind |-> "none"]

InitWorld(layouts, foci, systems) ==
    /\ elapsed = 0
    /\ delta = 0
    /\ keyboard = [pressed |-> {}, just_pressed |-> {}, just_released |-> {}]
    /\ ran = {}
    /\ phase = "end"
    /\ triggers = NoMessages
    /\ trigCursor = 0
    /\ events = NoMessages
    /\ evCursor = 0
    /\ layout \in layouts
    /\ man = InitMan(layout.manX)
    /\ inRange = NoRange
    /\ highlight = [f \in Furnishings |-> NoHighlight]
    /\ commands = <<>>
    /\ furn = [f \in Furnishings |-> InitFurnishing]
    /\ focus \in foci
    /\ sched = systems
    /\ obs = NoObs
    /\ removed = [f \in Furnishings |-> "none"]

InitScene(layouts, foci, systems) ==
    /\ InitWorld(layouts, foci, systems)
    /\ anim = NoAnim

\* ------------------------------------------------------------ the tick

CanRun(s) == phase = "run" /\ s \in sched /\ s \notin ran

Ran(s) == ran' = ran \cup {s}

\* RemovedComponents<Highlight> at the start of a frame: a removal recorded
\* in the last frame stays readable for this one, an older one is dropped.
Aged(r) == IF r = "written" THEN "kept" ELSE "none"

\* The time since the man entered Idle is observed where the idle timer
\* runs beside every system that writes his State.
IdleSpanObserved ==
    {"idle_action", "trigger_animation", "theman_handle_animations"} \subseteq sched

\* A frame begins (First, PreUpdate): the clock gives the frame its delta,
\* the keyboard takes the frame's edges and the message buffers swap.
Frame(keys, deltas) ==
    /\ phase = "end"
    /\ \E d \in deltas, edges \in EdgeSeqs(keys) :
          /\ delta' = d
          /\ keyboard' = KeyboardFrame(keyboard, edges)
    /\ triggers' = MessagesUpdate(triggers)
    /\ trigCursor' = CursorUpdate(triggers, trigCursor)
    /\ events' = MessagesUpdate(events)
    /\ evCursor' = CursorUpdate(events, evCursor)
    /\ ran' = {}
    /\ phase' = "run"
    /\ removed' = [f \in Furnishings |-> Aged(removed[f])]
    /\ obs' = [NoObs EXCEPT
                 !.pending = obs.pending,
                 !.walked = obs.walked,
                 !.lastPool = obs.lastPool,
                 !.prevNear = obs.near,
                 !.sinceIdle = IF IdleSpanObserved
                               THEN Min(IDLE_PERIOD, obs.sinceIdle + delta')
                               ELSE 0,
                 !.wasRunning = obs.wasRunning
                                \/ (focus \in Furnishings
                                    /\ furn[focus].state = "Running")]
    /\ UNCHANGED <<anim, inRange, highlight, commands, furn, focus, sched, layout>>

\* A frame of a specification none of whose systems reads Time::elapsed:
\* the clock's total is left out.
BeginTick(keys, deltas) ==
    /\ Frame(keys, deltas)
    /\ UNCHANGED <<elapsed, man>>

\* ------------------------------------------------------- theman.rs

Trigger(s, d) == [state |-> s, direction |-> d]

\* handle_keys, lines 117-131: the trigger of the key pressed in this tick.
KeyDownTriggers(kb) ==
    IF "ArrowLeft" \in kb.just_pressed THEN <<Trigger("Walking", "Left")>>
    ELSE IF "ArrowRight" \in kb.just_pressed THEN <<Trigger("Walking", "Right")>>
    ELSE IF "ArrowUp" \in kb.just_pressed THEN <<Trigger("Action", "Right")>>
    ELSE <<>>

\* A plausible slip: the ArrowUp branch as an `if` of its own.
KeyDownInteractions_NoElse(kb, range) ==
    IF "ArrowUp" \in kb.just_pressed /\ range # NoRange
    THEN <<range>>
    ELSE <<>>

\* handle_keys, lines 127-139: the interaction event that goes with the
\* action trigger when the man is in range.
KeyDownInteractions(kb, range) ==
    IF /\ "ArrowLeft" \notin kb.just_pressed
       /\ "ArrowRight" \notin kb.just_pressed
       /\ "ArrowUp" \in kb.just_pressed
       /\ range # NoRange
    THEN <<range>>
    ELSE <<>>

\* handle_keys, lines 141-154: the triggers of the keys released.
KeyUpTriggers(kb) ==
    (IF "ArrowLeft" \in kb.just_released /\ "ArrowRight" \notin kb.pressed
     THEN <<Trigger("Idle", "Left")>> ELSE <<>>)
    \o
    (IF "ArrowRight" \in kb.just_released /\ "ArrowLeft" \notin kb.pressed
     THEN <<Trigger("Idle", "Right")>> ELSE <<>>)

handle_keys ==
    /\ CanRun("handle_keys")
    /\ LET trigs == KeyDownTriggers(keyboard) \o KeyUpTriggers(keyboard)
           evs   == KeyDownInteractions(keyboard, inRange)
       IN  /\ triggers' = MessagesWriteAll(triggers, trigs)
           /\ events' = MessagesWriteAll(events, evs)
           /\ obs' = [obs EXCEPT !.pending =
                          IF "handle_interaction" \in sched THEN @ \o evs ELSE @]
    /\ Ran("handle_keys")
    /\ UNCHANGED <<anim, removed, elapsed, delta, keyboard, phase, trigCursor, evCursor, man,
                   inRange, highlight, commands, furn, focus, sched, layout>>

\* trigger_animation, lines 308-349: one Trigger applied to the man.
ApplyTrigger(m, ev) ==
    IF m.state = ev.state /\ m.direction = ev.direction THEN m
    ELSE CASE ev.state = "Idle" ->
                [m EXCEPT !.image = "standing_sprite",
                          !.atlas = Atlas("standing_layout", 0),
                          !.flip_x = (m.direction = "Left"),
                          !.state = ev.state,
                          !.direction = ev.direction]
           [] ev.state = "Action" ->
                [m EXCEPT !.image = "standing_sprite",
                          !.atlas = NoAtlas,
                          !.state = ev.state,
                          !.direction = ev.direction]
           [] ev.state = "Walking" ->
                [m EXCEPT !.image = "walking_sprite",
                          !.atlas = Atlas("walking_layout", 0),
                          !.flip_x = (ev.direction = "Left"),
                          !.timer = timer_from_fps(AnimationConfig("theman").fps),
                          !.state = ev.state,
                          !.direction = ev.direction]

RECURSIVE ApplyTriggers(_, _)
ApplyTriggers(m, batch) ==
    IF batch = <<>> THEN m
    ELSE ApplyTriggers(ApplyTrigger(m, Head(batch)), Tail(batch))

\* The triggers of `batch`, applied to m one after the other, take the man
\* into Idle from another state.
RECURSIVE EntersIdle(_, _)
EntersIdle(m, batch) ==
    IF batch = <<>> THEN FALSE
    ELSE LET m2 == ApplyTrigger(m, Head(batch))
         IN  (m.state # "Idle" /\ m2.state = "Idle")
             \/ EntersIdle(m2, Tail(batch))

trigger_animation ==
    /\ CanRun("trigger_animation")
    /\ man' = ApplyTriggers(man, Bodies(MessagesRead(triggers, trigCursor)))
    /\ trigCursor' = triggers.count
    /\ obs' = IF /\ IdleSpanObserved
                 /\ EntersIdle(man, Bodies(MessagesRead(triggers, trigCursor)))
              THEN [obs EXCEPT !.sinceIdle = delta]
              ELSE obs
    /\ Ran("trigger_animation")
    /\ UNCHANGED <<anim, removed, elapsed, delta, keyboard, phase, triggers, events, evCursor,
                   inRange, highlight, commands, furn, focus, sched, layout>>

\* A plausible slip: the advance without the wrap to first_index.
CyclicAdvance_NoWrap(cfg, index) == index + 1

\* A plausible slip: the wrap to frame 0 instead of first_index.
CyclicAdvance_WrapToZero(cfg, index) ==
    IF index = cfg.last_index THEN 0 ELSE index + 1

\* handle_animations (theman.rs 99-103, stereo.rs 58-62): on the last frame
\* back to the first, otherwise one on.
CyclicAdvance(cfg, index) ==
    IF index = cfg.last_index THEN cfg.first_index ELSE index + 1

\* A plausible slip: the branch for a sprite without an atlas left out.
ActionEnds_OnLastFrameOnly(m, cfg) ==
    IF m.state = "Action" /\ m.atlas.some /\ m.atlas.index = cfg.last_index
    THEN "Idle" ELSE m.state

\* theman.rs handle_animations, lines 82-90: Acting ends on the last frame,
\* or at once without an atlas.
ActionEnds(m, cfg) ==
    IF m.state = "Action" /\ (~m.atlas.some \/ m.atlas.index = cfg.last_index)
    THEN "Idle" ELSE m.state

\* A plausible slip: the frame advanced and the timer left as it is.
ManAnimate_KeepTimer(m, d) ==
    IF m.state = "Idle" THEN m
    ELSE LET cfg == AnimationConfig("theman")
             t2  == TimerTick(m.timer, d, TimerDuration(cfg.fps))
         IN  IF JustFinished(m.timer, t2) /\ m.atlas.some
             THEN [m EXCEPT !.state = ActionEnds(m, cfg),
                            !.atlas.index = CyclicAdvance(cfg, m.atlas.index),
                            !.timer = t2]
             ELSE [m EXCEPT !.state = ActionEnds(m, cfg),
                            !.timer = t2]

\* A plausible slip: the skip of the Idle state left out.
ManAnimate_NoSkip(m, d) ==
    LET cfg == AnimationConfig("theman")
        t2  == TimerTick(m.timer, d, TimerDuration(cfg.fps))
    IN  IF JustFinished(m.timer, t2) /\ m.atlas.some
        THEN [m EXCEPT !.state = ActionEnds(m, cfg),
                       !.atlas.index = CyclicAdvance(cfg, m.atlas.index),
                       !.timer = timer_from_fps(cfg.fps)]
        ELSE [m EXCEPT !.state = ActionEnds(m, cfg),
                       !.timer = t2]

\* theman.rs handle_animations, the body of the loop for the man.
ManAnimate(m, d) ==
    IF m.state = "Idle" THEN m
    ELSE LET cfg == AnimationConfig("theman")
             t2  == TimerTick(m.timer, d, TimerDuration(cfg.fps))
         IN  IF JustFinished(m.timer, t2) /\ m.atlas.some
             THEN [m EXCEPT !.state = ActionEnds(m, cfg),
                            !.atlas.index = CyclicAdvance(cfg, m.atlas.index),
                            !.timer = timer_from_fps(cfg.fps)]
             ELSE [m EXCEPT !.state = ActionEnds(m, cfg),
                            !.timer = t2]

theman_handle_animations ==
    /\ CanRun("theman_handle_animations")
    /\ man' = ManAnimate(man, delta)
    /\ obs' = [obs EXCEPT !.still = (man.state = "Idle"),
                          !.sinceIdle =
                             IF /\ IdleSpanObserved
                                /\ man.state # "Idle"
                                /\ ManAnimate(man, delta).state = "Idle"
                             THEN delta ELSE @]
    /\ Ran("theman_handle_animations")
    /\ UNCHANGED <<anim, removed, elapsed, delta, keyboard, phase, triggers, trigCursor, events,
                   evCursor, inRange, highlight, commands, furn, focus, sched,
                   layout>>

\* A plausible slip: the timer ticked in every state.
IdleTick_AnyState(m, d) ==
    IF m.idle + d >= IDLE_PERIOD
    THEN [m EXCEPT !.idle = (m.idle + d) % IDLE_PERIOD, !.flip_x = ~m.flip_x]
    ELSE [m EXCEPT !.idle = m.idle + d]

\* idle_action, lines 222-229: while Idle the repeating timer is ticked and
\* the sprite is mirrored each time it finishes; in any other state the
\* timer is reset.
IdleTick(m, d) ==
    IF m.state = "Idle"
    THEN IF m.idle + d >= IDLE_PERIOD
         THEN [m EXCEPT !.idle = (m.idle + d) % IDLE_PERIOD,
                        !.flip_x = ~m.flip_x]
         ELSE [m EXCEPT !.idle = m.idle + d]
    ELSE [m EXCEPT !.idle = 0]

idle_action ==
    /\ CanRun("idle_action")
    /\ man' = IdleTick(man, delta)
    /\ obs' = [obs EXCEPT !.flipped = (IdleTick(man, delta).flip_x # man.flip_x)]
    /\ Ran("idle_action")
    /\ UNCHANGED <<anim, removed, elapsed, delta, keyboard, phase, triggers,
                   trigCursor, events, evCursor, inRange, highlight, commands,
                   furn, focus, sched, layout>>

\* WALKING_TIMER (0.45 s) and WALKING_TIMER_DELAY (0.225 s), in 1/120 s.
WALKING_TIMER == 54
WALKING_TIMER_DELAY == 27

\* init, lines 249-270: the number of samples in each pool of AudioAssets.
AudioAssets == [left_steps |-> 3, right_steps |-> 3]

\* The pool handle_audio draws the sound of a foot from.
Pool(foot) == IF foot = "Left" THEN "left_steps" ELSE "right_steps"

OtherFoot(foot) == IF foot = "Left" THEN "Right" ELSE "Left"

\* Timer::tick of a Repeating timer, d in 1/60 s: the elapsed time wraps by
\* the duration, and a timer of duration zero finishes at every tick.
StepTimerTick(t, d) ==
    LET e == t.elapsed + 2 * d
    IN  IF e >= t.duration
        THEN [timer |-> [t EXCEPT !.elapsed = IF t.duration = 0 THEN 0
                                               ELSE e % t.duration],
              just_finished |-> TRUE]
        ELSE [timer |-> [t EXCEPT !.elapsed = e], just_finished |-> FALSE]

\* A plausible slip: the footstep is not handed to the other foot.
StepTick_KeepFoot(m, d, sample) ==
    IF m.state = "Walking"
    THEN LET t == StepTimerTick(m.step, d)
         IN  IF t.just_finished
             THEN [man |-> [m EXCEPT !.step = [t.timer EXCEPT !.duration = WALKING_TIMER]],
                   cmds |-> <<[op |-> "spawn_audio", pool |-> Pool(m.footstep),
                               sample |-> sample]>>]
             ELSE [man |-> [m EXCEPT !.step = t.timer], cmds |-> <<>>]
    ELSE [man |-> [m EXCEPT !.step.duration = WALKING_TIMER_DELAY], cmds |-> <<>>]

\* handle_audio, lines 180-215: the man after the system ran in a frame of
\* delta d, and the commands it queued; `sample` is the index rng() drew.
StepTick(m, d, sample) ==
    IF m.state = "Walking"
    THEN LET t == StepTimerTick(m.step, d)
         IN  IF t.just_finished
             THEN [man |-> [m EXCEPT !.step = [t.timer EXCEPT !.duration = WALKING_TIMER],
                                     !.footstep = OtherFoot(m.footstep)],
                   cmds |-> <<[op |-> "spawn_audio", pool |-> Pool(m.footstep),
                               sample |-> sample]>>]
             ELSE [man |-> [m EXCEPT !.step = t.timer], cmds |-> <<>>]
    ELSE [man |-> [m EXCEPT !.step.duration = WALKING_TIMER_DELAY], cmds |-> <<>>]

handle_audio ==
    /\ CanRun("handle_audio")
    /\ \E sample \in 1..AudioAssets[Pool(man.footstep)] :
          LET r == StepTick(man, delta, sample)
          IN  /\ man' = r.man
              /\ commands' = commands \o r.cmds
              /\ obs' = [obs EXCEPT
                            !.lastPool = IF r.cmds = <<>> THEN @
                                         ELSE r.cmds[1].pool,
                            !.resumed = /\ r.cmds # <<>>
                                        /\ man.step.duration = WALKING_TIMER_DELAY]
    /\ Ran("handle_audio")
    /\ UNCHANGED <<anim, removed, elapsed, delta, keyboard, phase, triggers,
                   trigCursor, events, evCursor, inRange, highlight, furn,
                   focus, sched, layout>>

\* handle_movement: WALKING_SPEED * delta_secs along the direction, while
\* Walking.
Displacement(d) == (WALKING_SPEED * d) \div 60

\* A plausible slip: the match on the state left out.
Move_AnyState(m, d) ==
    IF m.direction = "Left"
    THEN [m EXCEPT !.x = @ - Displacement(d)]
    ELSE [m EXCEPT !.x = @ + Displacement(d)]

Move(m, d) ==
    IF m.state = "Walking"
    THEN IF m.direction = "Left"
         THEN [m EXCEPT !.x = @ - Displacement(d)]
         ELSE [m EXCEPT !.x = @ + Displacement(d)]
    ELSE m

handle_movement ==
    /\ CanRun("handle_movement")
    /\ man' = Move(man, delta)
    /\ obs' = [obs EXCEPT !.walked =
                  IF man.state # "Walking" THEN @
                  ELSE IF man.direction = "Left" THEN @ - delta ELSE @ + delta]
    /\ Ran("handle_movement")
    /\ UNCHANGED <<anim, removed, elapsed, delta, keyboard, phase, triggers, trigCursor, events,
                   evCursor, inRange, highlight, commands, furn, focus, sched,
                   layout>>


\* ------------------------------------------- fireplace.rs, stereo.rs

BothObservers == {"handle_interaction_disable_highlight", "handle_sound"}

\* handle_interaction, the match on *state: Off becomes Running with the
\* running sprite on frame 0, Running becomes Off with the off sprite and no
\* atlas.  The write to State marks it changed for the Changed<State> systems.
Toggle(fr) ==
    IF fr.state = "Off"
    THEN [fr EXCEPT !.state = "Running",
                    !.image = "running_sprite",
                    !.atlas = Atlas("running_layout", 0),
                    !.changed = BothObservers]
    ELSE [fr EXCEPT !.state = "Off",
                    !.image = "off_sprite",
                    !.atlas = NoAtlas,
                    !.changed = BothObservers]

\* A plausible slip: the id of the event not compared.
Matches_AnyId(f, id) == TRUE

\* handle_interaction: event.id == INTERACTABLE_ID.
Matches(f, id) == id = INTERACTABLE_ID(f)

\* handle_interaction, the loop over events.read().
RECURSIVE ApplyEvents(_, _, _)
ApplyEvents(fr, f, batch) ==
    IF batch = <<>> THEN fr
    ELSE ApplyEvents(IF Matches(f, Head(batch)) THEN Toggle(fr) ELSE fr,
                     f, Tail(batch))

\* The events of a batch that carry f's id.
Matching(f, batch) == Len(SelectSeq(batch, LAMBDA id : id = INTERACTABLE_ID(f)))

\* A plausible slip: a reader that forgets what it has read.
ReaderCursor_Forgets(m) == 0

\* MessageReader::read leaves the reader's cursor at the message count.
ReaderCursor(m) == m.count

handle_interaction ==
    /\ CanRun("handle_interaction")
    /\ LET batch == Bodies(MessagesRead(events, evCursor))
       IN  /\ furn' = [furn EXCEPT ![focus] = ApplyEvents(@, focus, batch)]
           /\ obs' = [obs EXCEPT !.read = Len(batch),
                                 !.matching = Matching(focus, batch),
                                 !.before = furn[focus].state,
                                 !.sinkBefore = furn[focus].sink,
                                 !.pending = <<>>]
    /\ evCursor' = ReaderCursor(events)
    /\ Ran("handle_interaction")
    /\ UNCHANGED <<anim, removed, elapsed, delta, keyboard, phase, triggers, trigCursor, events,
                   man, inRange, highlight, commands, focus, sched, layout>>

\* handle_interaction_disable_highlight: for a furnishing whose State
\* changed since this system last ran, Running clears Interactable.first.
DisableHighlight(fr) ==
    IF "handle_interaction_disable_highlight" \in fr.changed
    THEN [fr EXCEPT !.first = IF fr.state = "Running" THEN FALSE ELSE @,
                    !.changed = @ \ {"handle_interaction_disable_highlight"}]
    ELSE fr

handle_interaction_disable_highlight ==
    /\ CanRun("handle_interaction_disable_highlight")
    /\ furn' = [furn EXCEPT ![focus] = DisableHighlight(@)]
    /\ Ran("handle_interaction_disable_highlight")
    /\ UNCHANGED <<anim, removed, elapsed, delta, keyboard, phase, triggers, trigCursor, events,
                   evCursor, man, inRange, highlight, commands, focus, sched,
                   layout, obs>>

\* A plausible slip: the Off arm leaves the sink alone.
Sound_NoPause(fr) ==
    IF "handle_sound" \in fr.changed
    THEN [fr EXCEPT !.sink = IF fr.state = "Running" THEN "playing" ELSE @,
                    !.changed = @ \ {"handle_sound"}]
    ELSE fr

\* handle_sound: for a furnishing whose State changed since this system
\* last ran, Running plays the sink and Off pauses it.
Sound(fr) ==
    IF "handle_sound" \in fr.changed
    THEN [fr EXCEPT !.sink = IF fr.state = "Running" THEN "playing" ELSE "paused",
                    !.changed = @ \ {"handle_sound"}]
    ELSE fr

handle_sound ==
    /\ CanRun("handle_sound")
    /\ furn' = [furn EXCEPT ![focus] = Sound(@)]
    /\ Ran("handle_sound")
    /\ UNCHANGED <<anim, removed, elapsed, delta, keyboard, phase, triggers, trigCursor, events,
                   evCursor, man, inRange, highlight, commands, focus, sched,
                   layout, obs>>

\* fireplace.rs handle_animations, lines 64-68: a frame of the range other
\* than the one shown (the loop resamples until it differs).
RandomAdvance(cfg, index) == (cfg.first_index .. cfg.last_index) \ {index}

\* The frames one advance of f's animation can show next.
NextFrames(f, index) ==
    IF f = "fireplace"
    THEN RandomAdvance(AnimationConfig(f), index)
    ELSE {CyclicAdvance(AnimationConfig(f), index)}

\* fireplace.rs / stereo.rs handle_animations.
handle_animations ==
    /\ CanRun("handle_animations")
    /\ LET fr  == furn[focus]
           cfg == AnimationConfig(focus)
           t2  == TimerTick(fr.timer, delta, TimerDuration(cfg.fps))
       IN  IF fr.state = "Off"
           THEN /\ UNCHANGED furn
                /\ obs' = [obs EXCEPT !.still = TRUE]
           ELSE IF JustFinished(fr.timer, t2) /\ fr.atlas.some
                THEN /\ \E n \in NextFrames(focus, fr.atlas.index) :
                           furn' = [furn EXCEPT ![focus].atlas.index = n,
                                                ![focus].timer = timer_from_fps(cfg.fps)]
                     /\ obs' = [obs EXCEPT !.moved = TRUE]
                ELSE /\ furn' = [furn EXCEPT ![focus].timer = t2]
                     /\ UNCHANGED obs
    /\ Ran("handle_animations")
    /\ UNCHANGED <<anim, removed, elapsed, delta, keyboard, phase, triggers, trigCursor, events,
                   evCursor, man, inRange, highlight, commands, focus, sched,
                   layout>>

\* ------------------------------------------------------ interaction.rs

\* theman.rs init: Interactor { width, height }, the sprite's 32 x 32 at the
\* scale of 4.
Interactor == [width |-> 128, height |-> 128]

\* fireplace.rs / stereo.rs init: Interactable { width, height },
\* SPRITE_WIDTH * SPRITE_SCALE by SPRITE_HEIGHT * SPRITE_SCALE.
Interactable(f) ==
    IF f = "fireplace"
    THEN [width |-> 8 * 7, height |-> 16 * 7]
    ELSE [width |-> 20 * 7, height |-> 16 * 7]

\* A plausible slip: the tests on top and bottom left out.
aabb_overlap_Across(pos_1, width_1, height_1, pos_2, width_2, height_2) ==
    LET left_1   == pos_1[1] - width_1 \div 2
        right_1  == pos_1[1] + width_1 \div 2
        left_2   == pos_2[1] - width_2 \div 2
        right_2  == pos_2[1] + width_2 \div 2
    IN  ~(right_1 < left_2 \/ left_1 > right_2)

\* A plausible slip: boxes that touch do not overlap.
aabb_overlap_Strict(pos_1, width_1, height_1, pos_2, width_2, height_2) ==
    LET left_1   == pos_1[1] - width_1 \div 2
        right_1  == pos_1[1] + width_1 \div 2
        top_1    == pos_1[2] + height_1 \div 2
        bottom_1 == pos_1[2] - height_1 \div 2
        left_2   == pos_2[1] - width_2 \div 2
        right_2  == pos_2[1] + width_2 \div 2
        top_2    == pos_2[2] + height_2 \div 2
        bottom_2 == pos_2[2] - height_2 \div 2
    IN  ~(right_1 <= left_2 \/ left_1 >= right_2
            \/ top_1 <= bottom_2 \/ bottom_1 >= top_2)

\* aabb_overlap: the boxes centred on pos_1 and pos_2 overlap or touch.
\* Every width and height of the scene is even, so the halves are exact.
aabb_overlap(pos_1, width_1, height_1, pos_2, width_2, height_2) ==
    LET left_1   == pos_1[1] - width_1 \div 2
        right_1  == pos_1[1] + width_1 \div 2
        top_1    == pos_1[2] + height_1 \div 2
        bottom_1 == pos_1[2] - height_1 \div 2
        left_2   == pos_2[1] - width_2 \div 2
        right_2  == pos_2[1] + width_2 \div 2
        top_2    == pos_2[2] + height_2 \div 2
        bottom_2 == pos_2[2] - height_2 \div 2
    IN  ~(right_1 < left_2 \/ left_1 > right_2
            \/ top_1 < bottom_2 \/ bottom_1 > top_2)

\* detect_overlaps, lines 77-84: the man at (x, y) against Interactable f.
Overlaps(x, y, f) ==
    aabb_overlap(<<x, y>>, Interactor.width, Interactor.height,
                 layout[f], Interactable(f).width, Interactable(f).height)

\* The orders in which the query can yield the Interactables: the source
\* relies on none.
IterationOrders ==
    {o \in [1..Cardinality(Furnishings) -> Furnishings] :
        \A i, j \in DOMAIN o : i # j => o[i] # o[j]}

\* A plausible slip: the first overlap found stays.
RECURSIVE Scan_First(_, _, _, _)
Scan_First(order, x, y, acc) ==
    IF order = <<>> THEN acc
    ELSE LET f == Head(order)
         IN  Scan_First(Tail(order), x, y,
                  IF Overlaps(x, y, f)
                  THEN IF acc.found = NoRange THEN [acc EXCEPT !.found = f] ELSE acc
                  ELSE [acc EXCEPT !.cmds =
                           Append(@, [op |-> "remove_highlight", target |-> f, at |-> 0])])

\* detect_overlaps, lines 76-90: the scan of the Interactables in `order`;
\* the last overlap found stays, every other Interactable has its Highlight
\* removed.
RECURSIVE Scan(_, _, _, _)
Scan(order, x, y, acc) ==
    IF order = <<>> THEN acc
    ELSE LET f == Head(order)
         IN  Scan(Tail(order), x, y,
                  IF Overlaps(x, y, f)
                  THEN [acc EXCEPT !.found = f]
                  ELSE [acc EXCEPT !.cmds =
                           Append(@, [op |-> "remove_highlight", target |-> f, at |-> 0])])

Abs(n) == IF n < 0 THEN -n ELSE n

\* The box of the man at (x, y) and the box of Interactable f overlap or
\* touch: the centres are no further apart than the half sizes add up to.
Near(x, y, f) ==
    /\ 2 * Abs(x - layout[f][1]) <= Interactor.width + Interactable(f).width
    /\ 2 * Abs(y - layout[f][2]) <= Interactor.height + Interactable(f).height

\* The last Interactable of `order` whose box is within reach of the man at
\* (x, y), reckoned from the centres' distances.
LastNear(order, x, y) ==
    LET idx == {i \in 1..Len(order) : Near(x, y, order[i])}
    IN  IF idx = {} THEN NoRange
        ELSE order[CHOOSE i \in idx : \A j \in idx : j <= i]

\* A plausible slip: the guard current_id != interactable_id left out.
Reconcile_Always(current, found, now) ==
    IF found # NoRange
    THEN <<[op |-> "insert_inrange", target |-> found, at |-> 0],
           [op |-> "insert_highlight", target |-> found, at |-> now]>>
    ELSE IF current # NoRange
         THEN <<[op |-> "remove_inrange", target |-> NoRange, at |-> 0]>>
         ELSE <<>>

\* A plausible slip: the new target gets no Highlight.
Reconcile_NoHighlight(current, found, now) ==
    IF found # NoRange /\ current # found
    THEN <<[op |-> "insert_inrange", target |-> found, at |-> 0]>>
    ELSE IF current # NoRange /\ found = NoRange
         THEN <<[op |-> "remove_inrange", target |-> NoRange, at |-> 0]>>
         ELSE <<>>

\* A plausible slip: the arm that removes InRange left out.
Reconcile_NoRemove(current, found, now) ==
    IF found # NoRange /\ current # found
    THEN <<[op |-> "insert_inrange", target |-> found, at |-> 0],
           [op |-> "insert_highlight", target |-> found, at |-> now]>>
    ELSE <<>>

\* detect_overlaps, lines 98-129: the commands for the InRange the man has
\* and the overlap the scan found.
Reconcile(current, found, now) ==
    IF found # NoRange /\ current # found
    THEN <<[op |-> "insert_inrange", target |-> found, at |-> 0],
           [op |-> "insert_highlight", target |-> found, at |-> now]>>
    ELSE IF current # NoRange /\ found = NoRange
         THEN <<[op |-> "remove_inrange", target |-> NoRange, at |-> 0]>>
         ELSE <<>>

detect_overlaps ==
    /\ CanRun("detect_overlaps")
    /\ \E order \in IterationOrders :
          LET scan == Scan(order, man.x, man.y, [found |-> NoRange, cmds |-> <<>>])
          IN  /\ commands' = commands \o scan.cmds
                                \o Reconcile(inRange, scan.found, elapsed)
              /\ obs' = [obs EXCEPT !.seenX = man.x,
                                    !.seenRange = inRange,
                                    !.found = scan.found,
                                    !.lastNear = LastNear(order, man.x, man.y),
                                    !.near = {f \in Furnishings :
                                                 Near(man.x, man.y, f)}]
    /\ Ran("detect_overlaps")
    /\ UNCHANGED <<anim, removed, elapsed, delta, keyboard, phase, triggers, trigCursor, events,
                   evCursor, man, inRange, highlight, furn, focus, sched, layout>>

\* One deferred command applied to the world's InRange and Highlights.
ApplyCommand(w, c) ==
    CASE c.op = "remove_highlight" ->
            [w EXCEPT !.highlight[c.target] = NoHighlight]
      [] c.op = "insert_highlight" ->
            [w EXCEPT !.highlight[c.target] = [some |-> TRUE, elapsed_offset |-> c.at]]
      [] c.op = "insert_inrange" -> [w EXCEPT !.inRange = c.target]
      [] c.op = "remove_inrange" -> [w EXCEPT !.inRange = NoRange]
      [] c.op = "spawn_audio" -> w

RECURSIVE ApplyCommands(_, _)
ApplyCommands(w, cs) ==
    IF cs = <<>> THEN w
    ELSE ApplyCommands(ApplyCommand(w, Head(cs)), Tail(cs))

\* ------------------------------------- the highlight of a furnishing

\* handle_highlight, lines 80-87: the sprite colour and the scale of a
\* furnishing that carries a Highlight: the pulse (a colour and a scale
\* that follow a sine of the time since the Highlight came) while Off and
\* not yet interacted with, Color::WHITE and SPRITE_SCALE otherwise.
Look(fr) == IF fr.state = "Off" /\ fr.first THEN "pulse" ELSE "neutral"

\* fireplace.rs / stereo.rs handle_highlight: the query matches the
\* furnishing only while it carries the Highlight component.
handle_highlight ==
    /\ CanRun("handle_highlight")
    /\ furn' = IF highlight[focus].some
               THEN [furn EXCEPT ![focus].look = Look(furn[focus])]
               ELSE furn
    /\ Ran("handle_highlight")
    /\ UNCHANGED <<anim, removed, elapsed, delta, keyboard, phase, triggers,
                   trigCursor, events, evCursor, man, inRange, highlight,
                   commands, focus, sched, layout, obs>>

\* fireplace.rs / stereo.rs handle_highlight_reset: every removal of a
\* Highlight not yet read gives the furnishing it was removed from its
\* neutral colour and scale.
handle_highlight_reset ==
    /\ CanRun("handle_highlight_reset")
    /\ furn' = IF removed[focus] \in {"written", "kept"}
               THEN [furn EXCEPT ![focus].look = "neutral"]
               ELSE furn
    /\ removed' = [removed EXCEPT ![focus] =
                      IF @ \in {"written", "kept"} THEN "read" ELSE @]
    /\ Ran("handle_highlight_reset")
    /\ UNCHANGED <<anim, elapsed, delta, keyboard, phase, triggers,
                   trigCursor, events, evCursor, man, inRange, highlight,
                   commands, focus, sched, layout, obs>>

\* ------------------------------------------------- the frame animators

\* The largest frame index of the configurations tried.
MaxFrame == 4

\* The advances one animator is followed for.
MaxAdvances == 8

\* AnimationConfig::new(first, last, fps) for any first <= last.
AnimationConfigs ==
    {[first_index |-> f, last_index |-> l, fps |-> 10] :
        f \in 0..MaxFrame, l \in 0..MaxFrame} \ 
    {[first_index |-> f, last_index |-> l, fps |-> 10] :
        f \in 1..MaxFrame, l \in 0..(MaxFrame - 1)}

\* An animator of `kind` ("cyclic": theman.rs, stereo.rs, animation.rs;
\* "random": fireplace.rs) showing frame `index`; pc is "show" between two
\* expiries of the frame timer and "resample" inside fireplace.rs's loop.
Animator(kind, cfg, index) ==
    [kind     |-> kind,
     cfg      |-> cfg,
     index    |-> index,
     start    |-> index,    \* the frame it started on
     prev     |-> index,    \* the frame shown before the last advance
     advances |-> 0,        \* advances completed
     redrawn  |-> FALSE,    \* the last advance went through the loop
     pc       |-> "show"]

world == <<elapsed, delta, keyboard, ran, phase, triggers, trigCursor, events,
           evCursor, man, inRange, highlight, commands, furn, focus, sched,
           layout, obs, removed>>

\* handle_animations (theman.rs 95-105, stereo.rs 57-67),
\* execute_animations (animation.rs 73-84): the frame timer just finished.
cyclic_advance ==
    /\ anim.kind = "cyclic"
    /\ anim.advances < MaxAdvances
    /\ anim' = [anim EXCEPT !.index = CyclicAdvance(anim.cfg, anim.index),
                            !.prev = anim.index,
                            !.advances = @ + 1]
    /\ UNCHANGED world

\* A plausible slip: every draw accepted.
Repeats_Never(new_index, index) == FALSE

\* fireplace.rs handle_animations, line 65: while new_index == atlas.index.
Repeats(new_index, index) == new_index = index

\* fireplace.rs handle_animations, lines 64-69: one draw of
\* random_range(first_index..=last_index); a draw that repeats the frame
\* shown keeps the loop going, any other becomes the frame.
Drawn(a, new_index) ==
    IF Repeats(new_index, a.index)
    THEN [a EXCEPT !.pc = "resample"]
    ELSE [a EXCEPT !.index = new_index,
                   !.prev = a.index,
                   !.advances = @ + 1,
                   !.redrawn = (a.pc = "resample"),
                   !.pc = "show"]

\* fireplace.rs handle_animations, line 64: the frame timer just finished
\* and the first draw is made.
random_advance ==
    /\ anim.kind = "random"
    /\ anim.pc = "show"
    /\ anim.advances < MaxAdvances
    /\ \E n \in anim.cfg.first_index .. anim.cfg.last_index :
          anim' = Drawn(anim, n)
    /\ UNCHANGED world

\* fireplace.rs handle_animations, lines 65-67: one more turn of the loop.
random_resample ==
    /\ anim.kind = "random"
    /\ anim.pc = "resample"
    /\ \E n \in anim.cfg.first_index .. anim.cfg.last_index :
          anim' = Drawn(anim, n)
    /\ UNCHANGED world

\* Any animator of either kind, on any frame of its configuration.
InitAnimators ==
    /\ InitWorld({ShippedLayout}, {"theman"}, {})
    /\ anim \in {Animator(k, cfg, i) :
                    k \in {"cyclic", "random"},
                    cfg \in AnimationConfigs,
                    i \in 0..MaxFrame}
    /\ anim.index >= anim.cfg.first_index
    /\ anim.index <= anim.cfg.last_index

NextAnimators ==
    \/ cyclic_advance
    \/ random_advance
    \/ random_resample

SpecAnimators == InitAnimators /\ [][NextAnimators]_vars

\* ------------------------------------------------- the specifications

\* A frame of a specification whose systems read Time::elapsed.
BeginTickClocked(keys, deltas) ==
    /\ Frame(keys, deltas)
    /\ elapsed' = elapsed + delta'
    /\ elapsed' <= MaxElapsed
    /\ UNCHANGED man

\* The tick ends when every scheduled system has run: the commands queued
\* in the tick are applied in the order queued.
EndTick ==
    /\ phase = "run"
    /\ ran = sched
    /\ phase' = "end"
    /\ LET w == ApplyCommands([inRange |-> inRange, highlight |-> highlight], commands)
       IN  /\ inRange' = w.inRange
           /\ highlight' = w.highlight
           /\ removed' = [f \in Furnishings |->
                             IF highlight[f].some /\ ~w.highlight[f].some
                             THEN "written" ELSE removed[f]]
    /\ commands' = <<>>
    /\ UNCHANGED <<anim, elapsed, delta, keyboard, ran, triggers, trigCursor, events,
                   evCursor, man, furn, focus, sched, layout, obs>>

\* The tick ends when every scheduled system has run.  Where
\* detect_overlaps is not scheduled, the man's InRange is whatever the
\* proximity pass of the tick left.
EndTickAnywhere ==
    /\ phase = "run"
    /\ ran = sched
    /\ phase' = "end"
    /\ inRange' \in {NoRange} \cup Furnishings
    /\ UNCHANGED <<anim, removed, elapsed, delta, keyboard, ran, triggers, trigCursor, events,
                   evCursor, man, highlight, commands, furn, focus, sched,
                   layout, obs>>

InteractionSystems ==
    {"handle_keys", "handle_interaction",
     "handle_interaction_disable_highlight", "handle_sound",
     "handle_animations"}

\* One furnishing, the ArrowUp key and the event channel.
InitInteraction == InitScene({ShippedLayout}, Furnishings, InteractionSystems)

NextInteraction ==
    \/ BeginTick({"ArrowUp"}, SlowFrame)
    \/ handle_keys
    \/ handle_interaction
    \/ handle_interaction_disable_highlight
    \/ handle_sound
    \/ handle_animations
    \/ EndTickAnywhere

SpecInteraction == InitInteraction /\ [][NextInteraction]_vars

\* The man's keys: the three arrow keys, the triggers and the events they
\* write, and the man they animate.
InitKeys == InitScene({ShippedLayout}, {"theman"}, {"handle_keys", "trigger_animation"})

NextKeys ==
    \/ BeginTick(Keys, SlowFrame)
    \/ handle_keys
    \/ trigger_animation
    \/ EndTickAnywhere

SpecKeys == InitKeys /\ [][NextKeys]_vars

ProximitySystems ==
    {"handle_keys", "trigger_animation", "handle_movement", "detect_overlaps"}

\* The man walking left and right past the furnishings.
InitProximity ==
    InitScene({ShippedNear, BesideLayout}, {"theman"}, ProximitySystems)

NextProximity ==
    \/ BeginTickClocked({"ArrowLeft", "ArrowRight"}, QuickFrame \cup SlowFrame)
    \/ handle_keys
    \/ trigger_animation
    \/ handle_movement
    \/ detect_overlaps
    \/ EndTick

SpecProximity == InitProximity /\ [][NextProximity]_vars

SceneSystems ==
    {"handle_keys", "trigger_animation", "handle_movement", "detect_overlaps",
     "handle_interaction", "handle_interaction_disable_highlight"}

\* The man walking up to the fireplace and switching it on.
InitShipped == InitScene({ShippedNear}, {"fireplace"}, SceneSystems)

NextScene ==
    \/ BeginTickClocked(Keys, QuickFrame)
    \/ handle_keys
    \/ trigger_animation
    \/ handle_movement
    \/ detect_overlaps
    \/ handle_interaction
    \/ handle_interaction_disable_highlight
    \/ EndTick

SpecScene == InitShipped /\ [][NextScene]_vars

\* The shipped scene with the man next to the fireplace or below the
\* stereo, and the systems of the stereo.
InitReach == InitScene({ShippedNear, ShippedUnder}, {"stereo"}, SceneSystems)

NextReach ==
    \/ BeginTickClocked({"ArrowUp", "ArrowRight"}, QuickFrame)
    \/ handle_keys
    \/ trigger_animation
    \/ handle_movement
    \/ detect_overlaps
    \/ handle_interaction
    \/ handle_interaction_disable_highlight
    \/ EndTick

SpecReach == InitReach /\ [][NextReach]_vars

ManAnimationSystems ==
    {"handle_keys", "trigger_animation", "theman_handle_animations"}

FurnishingAnimationSystems ==
    {"handle_keys", "handle_interaction", "handle_animations"}

\* One animated entity: the man under the three arrow keys, or a furnishing
\* switched on and off.
InitAnimation ==
    \/ InitScene({ShippedLayout}, {"theman"}, ManAnimationSystems)
    \/ InitScene({ShippedLayout}, Furnishings, FurnishingAnimationSystems)

NextAnimation ==
    \/ BeginTick(IF focus = "theman" THEN Keys ELSE {"ArrowUp"}, QuickFrame)
    \/ handle_keys
    \/ trigger_animation
    \/ theman_handle_animations
    \/ handle_interaction
    \/ handle_animations
    \/ EndTickAnywhere

SpecAnimation == InitAnimation /\ [][NextAnimation]_vars

MovementSystems ==
    {"handle_keys", "trigger_animation", "theman_handle_animations",
     "handle_movement"}

\* The man walking, standing and acting under the three arrow keys, with
\* frames of either length.
InitMovement == InitScene({ShippedLayout}, {"theman"}, MovementSystems)

NextMovement ==
    \/ BeginTickClocked(Keys, QuickFrame \cup SlowFrame)
    \/ handle_keys
    \/ trigger_animation
    \/ theman_handle_animations
    \/ handle_movement
    \/ EndTick

SpecMovement == InitMovement /\ [][NextMovement]_vars

FeedbackSystems ==
    SceneSystems \cup {"handle_highlight", "handle_highlight_reset"}

\* The man walking up to the fireplace and away, and switching it on, with
\* the fireplace's highlight.
InitFeedback == InitScene({ShippedNear}, {"fireplace"}, FeedbackSystems)

NextFeedback ==
    \/ BeginTickClocked(Keys, QuickFrame)
    \/ handle_keys
    \/ trigger_animation
    \/ handle_movement
    \/ detect_overlaps
    \/ handle_interaction
    \/ handle_interaction_disable_highlight
    \/ handle_highlight
    \/ handle_highlight_reset
    \/ EndTick

SpecFeedback == InitFeedback /\ [][NextFeedback]_vars

\* One animated entity as in SpecAnimation, with frames of either length:
\* the man walking left and acting, or a furnishing switched on and off.
NextStill ==
    \/ BeginTick(IF focus = "theman" THEN {"ArrowUp", "ArrowLeft"}
                 ELSE {"ArrowUp"},
                 QuickFrame \cup SlowFrame)
    \/ handle_keys
    \/ trigger_animation
    \/ theman_handle_animations
    \/ handle_interaction
    \/ handle_animations
    \/ EndTickAnywhere

SpecStill == InitAnimation /\ [][NextStill]_vars

FidgetSystems ==
    {"handle_keys", "trigger_animation", "theman_handle_animations",
     "idle_action"}

\* The man standing and acting, with the idle timer, in frames of 250 ms.
InitFidget == InitScene({ShippedLayout}, {"theman"}, FidgetSystems)

NextFidget ==
    \/ BeginTick({"ArrowUp"}, LongFrame)
    \/ handle_keys
    \/ trigger_animation
    \/ theman_handle_animations
    \/ idle_action
    \/ EndTick

SpecFidget == InitFidget /\ [][NextFidget]_vars

FacingSystems == {"handle_keys", "trigger_animation", "idle_action"}

\* The systems that write the man's Direction and flip_x, in frames of
\* 250 ms.
InitFacing == InitScene({ShippedLayout}, {"theman"}, FacingSystems)

NextFacing ==
    \/ BeginTick(Keys, LongFrame)
    \/ handle_keys
    \/ trigger_animation
    \/ idle_action
    \/ EndTick

SpecFacing == InitFacing /\ [][NextFacing]_vars

StepSystems ==
    {"handle_keys", "trigger_animation", "theman_handle_animations",
     "handle_audio"}

\* The man walking, standing and acting, with the step timer, in frames of
\* 250 ms.
InitSteps == InitScene({ShippedLayout}, {"theman"}, StepSystems)

NextSteps ==
    \/ BeginTick({"ArrowUp", "ArrowRight"}, LongFrame)
    \/ handle_keys
    \/ trigger_animation
    \/ theman_handle_animations
    \/ handle_audio
    \/ EndTick

SpecSteps == InitSteps /\ [][NextSteps]_vars

\* The man acting and walking, frame after frame: the runner starts a frame
\* whenever the last one has ended, and every frame runs each system of the
\* Update schedule once and then ends.
InitActing == InitScene({ShippedLayout}, {"theman"}, ManAnimationSystems)

ActingFrame == BeginTick({"ArrowUp", "ArrowLeft"}, QuickFrame)

NextActing ==
    \/ ActingFrame
    \/ handle_keys
    \/ trigger_animation
    \/ theman_handle_animations
    \/ EndTick

SpecActing ==
    /\ InitActing
    /\ [][NextActing]_vars
    /\ WF_vars(ActingFrame)
    /\ WF_vars(handle_keys)
    /\ WF_vars(trigger_animation)
    /\ WF_vars(theman_handle_animations)
    /\ WF_vars(EndTick)

\* --------------------------------------------------------- properties

\* System s runs in this step.
Step(s) == s \notin ran /\ s \in ran'

\* C1: when a furnishing that is Off consumes one event with its own id,
\* then at the end of that tick (every system of the tick has run) it is
\* Running, its Interactable.first is false and its sink is playing.
C1_OffToRunning ==
    (phase = "end" /\ obs.matching = 1 /\ obs.before = "Off")
        => /\ furn[focus].state = "Running"
           /\ ~furn[focus].first
           /\ furn[focus].sink = "playing"

C3_NothingMovesWithoutEvent ==
    (phase = "end" /\ obs.matching = 0) => ~obs.moved

\* C3 amended: the State changes only in handle_interaction, and only when
\* it consumes an event with the furnishing's id; a run of handle_interaction
\* that reads no matching event leaves the whole furnishing as it was; the
\* sprite image and the atlas are swapped only with the State, the atlas
\* index moves besides only in handle_animations, the sink only in
\* handle_sound.
C3_StateOnlyByMatchingEvent ==
    [][/\ furn'[focus].state # furn[focus].state
            => Step("handle_interaction") /\ obs'.matching \in {1, 3}
       /\ (Step("handle_interaction") /\ obs'.matching = 0)
            => furn'[focus] = furn[focus]
       /\ (\/ furn'[focus].image # furn[focus].image
           \/ furn'[focus].atlas.some # furn[focus].atlas.some)
            => furn'[focus].state # furn[focus].state
       /\ furn'[focus].atlas.index # furn[focus].atlas.index
            => Step("handle_interaction") \/ Step("handle_animations")
       /\ furn'[focus].sink # furn[focus].sink => Step("handle_sound")
      ]_vars

\* C3's case: a Running furnishing read an event with another id and is
\* still Running.
C3_Witness ==
    /\ "handle_interaction" \in ran
    /\ obs.read = 1
    /\ obs.matching = 0
    /\ obs.before = "Running"
    /\ furn[focus].state = "Running"

\* C4: a furnishing that was Running when an earlier tick ended has
\* Interactable.first false when any later tick ends.
C4_FirstStaysCleared ==
    (phase = "end" /\ obs.wasRunning) => ~furn[focus].first

\* C6: handle_interaction reads exactly the events written since its last
\* run, in the order written; they were written in this tick or the one
\* before; each event with the furnishing's id toggles it once; the run
\* leaves nothing unread.
C6_ConsumedOnce ==
    [][Step("handle_interaction")
         => /\ Bodies(MessagesRead(events, evCursor)) = obs.pending
            /\ \A i \in 1..Len(obs.pending) :
                  \E j \in 1..Len(events.a \o events.b) :
                     (events.a \o events.b)[j].body = obs.pending[i]
            /\ furn'[focus].state =
                 IF Matching(focus, obs.pending) % 2 = 1
                 THEN (IF furn[focus].state = "Off" THEN "Running" ELSE "Off")
                 ELSE furn[focus].state
            /\ MessagesRead(events', evCursor') = <<>>
            /\ obs'.pending = <<>>
      ]_vars

\* C6's case: an event written in one tick, after handle_interaction had
\* run, was consumed in the next tick before handle_keys ran.
C6_Witness ==
    /\ phase = "run"
    /\ "handle_interaction" \in ran
    /\ "handle_keys" \notin ran
    /\ obs.read = 1
    /\ obs.matching = 1
    /\ obs.before = "Off"
    /\ furn[focus].state = "Running"

\* The messages a step appended to the write buffer of m.
Written(m, m2) == Bodies(SubSeq(m2.b, Len(m.b) + 1, Len(m2.b)))

\* C5: a run of handle_keys writes an InteractionEvent exactly when it
\* writes the Action trigger and the man has an InRange; it then writes one
\* event, carrying InRange's id; no other system writes an event.
C5_EventIffActionInRange ==
    [][LET evs   == Written(events, events')
           trigs == Written(triggers, triggers')
           acts  == \E i \in 1..Len(trigs) : trigs[i].state = "Action"
       IN  IF Step("handle_keys")
           THEN /\ Len(evs) <= 1
                /\ Len(evs) = 1 <=> (acts /\ inRange # NoRange)
                /\ Len(evs) = 1 => evs[1] = inRange
                /\ acts <=> ("ArrowUp" \in keyboard.just_pressed
                             /\ "ArrowLeft" \notin keyboard.just_pressed
                             /\ "ArrowRight" \notin keyboard.just_pressed)
           ELSE phase = "run" => events' = events
      ]_vars

\* C5's case: handle_keys ran with ArrowUp just pressed and the man in range
\* of the fireplace, and wrote one event with the fireplace's id.
C5_Witness ==
    /\ "handle_keys" \in ran
    /\ "ArrowUp" \in keyboard.just_pressed
    /\ inRange = "fireplace"
    /\ Bodies(events.b) = <<"fireplace">>

InRangeCommands ==
    SelectSeq(commands, LAMBDA c : c.op \in {"insert_inrange", "remove_inrange"})

\* C7: when a tick in which detect_overlaps ran has ended, the man's InRange
\* names an Interactable whose box overlapped his in that pass, and he has
\* none if no box did; a pass queues at most one command on InRange.
C7_InRangeAgrees ==
    LET over == {f \in Furnishings : Near(obs.seenX, man.y, f)}
    IN  /\ Len(InRangeCommands) <= 1
        /\ (phase = "end" /\ "detect_overlaps" \in ran)
             => /\ over = {} => inRange = NoRange
                /\ over # {} => inRange \in over
                /\ inRange = obs.found

\* C7's case: the man had the fireplace in range, the pass found no overlap
\* and the InRange is gone when the tick ends.
C7_Witness ==
    /\ phase = "end"
    /\ obs.seenRange = "fireplace"
    /\ ~Near(obs.seenX, man.y, "fireplace")
    /\ inRange = NoRange

\* C8: when the pass of a tick found an overlap for a man without InRange,
\* the end of the tick gives him InRange with that Interactable's id and
\* gives the Interactable a Highlight whose elapsed_offset is the clock's
\* elapsed time of the tick; when the pass found the Interactable he
\* already had in range, the tick leaves InRange and that Highlight as they
\* were.
C8_EnterAttachesHighlight ==
    [][(phase = "run" /\ phase' = "end" /\ "detect_overlaps" \in ran)
         => /\ (obs.seenRange = NoRange /\ obs.found # NoRange)
                 => /\ inRange' = obs.found
                    /\ Near(obs.seenX, man.y, obs.found)
                    /\ highlight'[obs.found] =
                         [some |-> TRUE, elapsed_offset |-> elapsed]
            /\ (obs.seenRange # NoRange /\ obs.found = obs.seenRange)
                 => /\ inRange' = inRange
                    /\ inRange' = obs.found
                    /\ highlight'[obs.found] = highlight[obs.found]
      ]_vars

\* C8's case: the man stayed in range of the fireplace in a later tick, and
\* its Highlight still carries the time of the tick in which he came.
C8_Witness ==
    /\ phase = "end"
    /\ obs.seenRange = "fireplace"
    /\ obs.found = "fireplace"
    /\ inRange = "fireplace"
    /\ highlight["fireplace"].some
    /\ highlight["fireplace"].elapsed_offset > 0
    /\ highlight["fireplace"].elapsed_offset < elapsed

\* C9 as stated: when a tick has ended, an Interactable carries a Highlight
\* exactly if it is the man's InRange target and its Interactable.first is
\* still true.
C9_HighlightIffFirst ==
    phase = "end"
        => \A f \in Furnishings :
              highlight[f].some <=> (inRange = f /\ furn[f].first)

\* C9 amended: when a tick has ended, the man's InRange target carries a
\* Highlight whatever its Interactable.first is, and an Interactable that
\* carries a Highlight overlapped the man in the last pass; in the shipped
\* scene the Highlight is on exactly the InRange target.
C9_HighlightIffInRange ==
    phase = "end"
        => \A f \in Furnishings :
              /\ inRange = f => highlight[f].some
              /\ highlight[f].some => Near(obs.seenX, man.y, f)
              /\ layout.stereo = ShippedLayout.stereo
                   => (highlight[f].some <=> inRange = f)

\* C9's case: the fireplace has been switched on, its first flag is
\* cleared, the man is still in range and it still carries its Highlight.
C9_Witness ==
    /\ phase = "end"
    /\ inRange = "fireplace"
    /\ furn["fireplace"].state = "Running"
    /\ ~furn["fireplace"].first
    /\ highlight["fireplace"].some

InFrames(e, atlas) ==
    atlas.some => /\ atlas.index >= AnimationConfig(e).first_index
                  /\ atlas.index <= AnimationConfig(e).last_index

\* C10: whenever the sprite of the man, the fireplace or the stereo has a
\* texture atlas, the atlas index lies between first_index and last_index
\* of the entity's AnimationConfig.
C10_IndexInFrames ==
    /\ InFrames("theman", man.atlas)
    /\ \A f \in Furnishings : InFrames(f, furn[f].atlas)

\* C10's case: the walking man's animation has advanced to its last frame.
C10_Witness ==
    /\ man.state = "Walking"
    /\ man.atlas.some
    /\ man.atlas.index = AnimationConfig("theman").last_index

Span(cfg) == cfg.last_index - cfg.first_index + 1

\* C11: a cyclic animator that started on frame `start` of a configuration
\* with first <= last shows, after n advances, frame
\* first + (start - first + n) mod (last - first + 1): every advance goes
\* one frame up, from last back to first, so from first the frames of
\* [first, last] are visited once each in increasing order and the animator
\* is back on first after exactly last - first + 1 advances.
C11_CyclicAdvance ==
    anim.kind = "cyclic"
        => /\ anim.index = anim.cfg.first_index
                + ((anim.start - anim.cfg.first_index + anim.advances)
                     % Span(anim.cfg))
           /\ anim.index >= anim.cfg.first_index
           /\ anim.index <= anim.cfg.last_index
           /\ anim.advances > 0
                => anim.index = IF anim.prev = anim.cfg.last_index
                                THEN anim.cfg.first_index
                                ELSE anim.prev + 1

\* C11's case: an animator with frames 1..4 that started on frame 1 is back
\* on frame 1 after exactly four advances, having just shown frame 4.
C11_Witness ==
    /\ anim.kind = "cyclic"
    /\ anim.cfg.first_index = 1
    /\ anim.cfg.last_index = 4
    /\ anim.start = 1
    /\ anim.advances = 4
    /\ anim.prev = 4
    /\ anim.index = 1

\* C12: a random animator with first < last: every completed advance sets
\* the frame to one of [first, last] other than the frame shown just before
\* the advance, whatever the draws were.
C12_RandomAdvanceDiffers ==
    [][(/\ anim.kind = "random"
        /\ anim.cfg.first_index < anim.cfg.last_index
        /\ anim'.advances = anim.advances + 1)
          => /\ anim'.index >= anim.cfg.first_index
             /\ anim'.index <= anim.cfg.last_index
             /\ anim'.index # anim.index
             /\ anim'.prev = anim.index
             /\ anim'.pc = "show"]_vars

\* C12's case: an advance that drew the frame shown at least once, drew
\* again and ended on another frame.
C12_Witness ==
    /\ anim.kind = "random"
    /\ anim.cfg.first_index < anim.cfg.last_index
    /\ anim.advances >= 2
    /\ anim.redrawn
    /\ anim.pc = "show"
    /\ anim.index # anim.prev

\* C13: a random animator with first = last showing frame first: the
\* advance at the expiry of the frame timer completes without entering the
\* loop that draws again.
C13_AdvanceCompletes ==
    (/\ anim.kind = "random"
     /\ anim.cfg.first_index = anim.cfg.last_index
     /\ anim.index = anim.cfg.first_index)
        => anim.pc # "resample"

\* With first = last the loop, once entered, is never left.
SingleFrameLoopNeverEnds ==
    [][(/\ anim.kind = "random"
        /\ anim.cfg.first_index = anim.cfg.last_index
        /\ anim.pc = "resample")
          => anim'.pc = "resample"]_vars

Directions == {"Left", "Right"}

ArrowKey(d) == IF d = "Left" THEN "ArrowLeft" ELSE "ArrowRight"

\* The triggers a run of trigger_animation reads, and the man after the
\* first i of them.
Batch == Bodies(MessagesRead(triggers, trigCursor))

After(i) == ApplyTriggers(man, SubSeq(Batch, 1, i))

\* What one Walking trigger does when trigger_animation processes it: the
\* man walks in its direction on frame 0 of the walking atlas with a fresh
\* frame timer, unless he walked that way already; a trigger equal to the
\* man's (state, direction) changes nothing.
WalkingTriggerObeyed ==
    [][Step("trigger_animation") =>
         /\ man' = After(Len(Batch))
         /\ \A i \in 1..Len(Batch) :
              LET ev == Batch[i]
                  m  == After(i - 1)
                  m2 == After(i)
              IN  /\ (ev.state = m.state /\ ev.direction = m.direction)
                        => m2 = m
                  /\ (ev.state = "Walking" /\ ev.direction \in Directions
                      /\ ~(m.state = "Walking" /\ m.direction = ev.direction))
                        => /\ m2.state = "Walking"
                           /\ m2.direction = ev.direction
                           /\ m2.image = "walking_sprite"
                           /\ m2.atlas = [some |-> TRUE,
                                          layout |-> "walking_layout",
                                          index |-> 0]
                           /\ m2.timer = [elapsed |-> 0, finished |-> FALSE]
                           /\ m2.flip_x = (ev.direction = "Left")]_vars

\* C14: every key-down edge of ArrowLeft (ArrowRight) makes handle_keys
\* write the Walking trigger of that direction, and trigger_animation,
\* processing a Walking trigger while the man is not walking that way, leaves
\* him Walking in that direction on frame 0 of the walking atlas with a
\* fresh frame timer; a trigger equal to his (state, direction) changes
\* nothing.
C14_KeyDownWalks ==
    [][/\ Step("handle_keys") =>
            \A d \in Directions :
               ArrowKey(d) \in keyboard.just_pressed
                  => \E i \in 1..Len(Written(triggers, triggers')) :
                        Written(triggers, triggers')[i]
                           = [state |-> "Walking", direction |-> d]
       /\ Step("trigger_animation") =>
            \A i \in 1..Len(Batch) :
               /\ (Batch[i].state = After(i - 1).state
                   /\ Batch[i].direction = After(i - 1).direction)
                     => After(i) = After(i - 1)
               /\ Batch[i].state = "Walking"
                     => /\ After(i).state = "Walking"
                        /\ After(i).direction = Batch[i].direction
                        /\ After(i).atlas.some
                        /\ After(i).atlas.layout = "walking_layout"
                        /\ (After(i - 1).state # "Walking"
                            \/ After(i - 1).direction # Batch[i].direction)
                              => /\ After(i).atlas.index = 0
                                 /\ After(i).timer.elapsed = 0]_vars

\* C15: the man is Walking in direction d and trigger_animation processes
\* the triggers of key releases only, among them the one of d's own key
\* released with the opposite key not held: afterwards he is Idle, his
\* Direction is still d and his sprite is mirrored iff d is Left.
C15_ReleaseKeepsFacing ==
    [][(/\ Step("trigger_animation")
        /\ man.state = "Walking"
        /\ \A i \in 1..Len(Batch) : Batch[i].state = "Idle"
        /\ \E i \in 1..Len(Batch) : Batch[i].direction = man.direction)
          => /\ man'.state = "Idle"
             /\ man'.direction = man.direction
             /\ man'.flip_x = (man.direction = "Left")]_vars

\* C16: in every tick in which ArrowUp has a key-down edge handle_keys
\* writes the Action trigger, whatever other keys are pressed or held, and
\* trigger_animation, processing an Action trigger, leaves the man Acting
\* whatever his state was.
C16_ActionAlways ==
    [][/\ (Step("handle_keys") /\ "ArrowUp" \in keyboard.just_pressed)
            => \E i \in 1..Len(Written(triggers, triggers')) :
                  Written(triggers, triggers')[i].state = "Action"
       /\ Step("trigger_animation")
            => \A i \in 1..Len(Batch) :
                  Batch[i].state = "Action" => After(i).state = "Action"]_vars

\* C17: the man never stays Acting forever and needs no input to leave it:
\* every run of handle_animations that finds him Acting (his sprite has no
\* atlas bound then, or shows the last frame) leaves him Idle, and he
\* leaves Acting for another state than Idle only when trigger_animation
\* processes a trigger.
C17_ActingEnds ==
    /\ (man.state = "Action") ~> (man.state # "Action")
    /\ [][(Step("theman_handle_animations") /\ man.state = "Action")
            => man'.state = "Idle"]_vars
    /\ [][(man.state = "Action" /\ man'.state = "Walking")
            => (Step("trigger_animation") /\ Len(Batch) > 0)]_vars
    /\ [](man.state = "Action" =>
            (~man.atlas.some
             \/ man.atlas.index = AnimationConfig("theman").last_index))

\* C17's case: handle_animations ran, and the man is Idle with the sprite
\* the Action trigger left him (no atlas bound): he was Acting and
\* handle_animations took him back to Idle.
C17_Witness ==
    /\ "theman_handle_animations" \in ran
    /\ man.state = "Idle"
    /\ ~man.atlas.some

C19_IdleKeepsDirection ==
    [][/\ Step("trigger_animation")
            => \A i \in 1..Len(Batch) :
                  (After(i - 1).state = "Idle" /\ After(i).state = "Idle")
                     => After(i).direction = After(i - 1).direction
       /\ (~Step("trigger_animation") /\ man.state = "Idle")
            => man'.direction = man.direction]_vars

\* C20: the man's Direction persists across an action: the Action trigger
\* that trigger_animation processes leaves his Direction as it was, and so
\* does the run of handle_animations that returns him to Idle.
C20_ActionKeepsDirection ==
    [][/\ Step("trigger_animation")
            => \A i \in 1..Len(Batch) :
                  Batch[i].state = "Action"
                     => After(i).direction = After(i - 1).direction
       /\ Step("theman_handle_animations")
            => man'.direction = man.direction]_vars

\* C21: when a tick in which detect_overlaps ran has ended, the man's
\* InRange names the last Interactable, in the order the pass iterated
\* them, whose box overlapped his, whichever Interactable InRange named
\* before the pass.
C21_LastOverlapWins ==
    (phase = "end" /\ "detect_overlaps" \in ran /\ obs.lastNear # NoRange)
        => inRange = obs.lastNear

\* C21's case: both Interactables overlapped the man, the pass iterated his
\* earlier target last but one, and InRange names the one iterated last.
C21_Witness ==
    /\ phase = "end"
    /\ "detect_overlaps" \in ran
    /\ \A f \in Furnishings : Near(obs.seenX, man.y, f)
    /\ obs.seenRange = "fireplace"
    /\ obs.lastNear = "stereo"
    /\ inRange = "stereo"

\* C22: when the pass of a tick read InRange naming A and found B, A # B,
\* then once the tick's commands are applied InRange names B, B carries a
\* Highlight whose offset is the tick's elapsed time, A carries none, and
\* no more than one Interactable carries a Highlight.
C22_ChangeMovesHighlight ==
    [][(/\ phase = "run" /\ phase' = "end"
        /\ "detect_overlaps" \in ran
        /\ obs.seenRange # NoRange
        /\ obs.found # NoRange
        /\ obs.found # obs.seenRange)
          => /\ inRange' = obs.found
             /\ highlight'[obs.found] = [some |-> TRUE, elapsed_offset |-> elapsed]
             /\ ~highlight'[obs.seenRange].some
             /\ Cardinality({f \in Furnishings : highlight'[f].some}) <= 1]_vars

\* C23: when a tick's systems have all run, a furnishing shows a colour and
\* a scale other than the neutral ones only if it is Off, its first flag is
\* set and it carried a Highlight during the tick, in whatever order the
\* systems ran.
C23_PulseOnlyWhenInviting ==
    [][(phase = "run" /\ phase' = "end")
          => \A f \in Furnishings :
                furn[f].look # "neutral"
                   => /\ furn[f].state = "Off"
                      /\ furn[f].first
                      /\ highlight[f].some]_vars

\* C24: every InteractionEvent handle_keys writes is addressed to an
\* Interactable whose box overlapped the man's in the detect_overlaps pass
\* of the tick before or, if the pass of this tick has run already, in that
\* one: the InRange handle_keys reads is no more than one tick old.
C24_InRangeOneTickStale ==
    [][Step("handle_keys")
          => \A i \in 1..Len(Written(events, events')) :
                Written(events, events')[i] \in obs.prevNear \cup obs.near]_vars

\* C24's case: the event of this tick is addressed to the fireplace, within
\* reach in the pass of the tick before, while this tick's pass, which ran
\* before handle_keys, found nothing within reach.
C24_Witness ==
    /\ {"detect_overlaps", "handle_keys"} \subseteq ran
    /\ obs.near = {}
    /\ obs.prevNear = {"fireplace"}
    /\ Bodies(events.b) = <<"fireplace">>
    /\ inRange = "fireplace"

\* C25: an animation system that finds its entity at rest (the man Idle, a
\* furnishing Off) changes neither the entity's frame index nor its frame
\* timer, whatever the delta of the tick.
C25_RestDoesNotAnimate ==
    [][/\ (Step("theman_handle_animations") /\ man.state = "Idle")
            => /\ man'.atlas = man.atlas
               /\ man'.timer = man.timer
       /\ (Step("handle_animations") /\ furn[focus].state = "Off")
            => /\ furn'[focus].atlas = furn[focus].atlas
               /\ furn'[focus].timer = furn[focus].timer]_vars

\* C25's case: handle_animations found the man Idle with his frame timer
\* part of the way through, as walking left it, and the timer is still
\* there.
C25_Witness ==
    /\ "theman_handle_animations" \in ran
    /\ obs.still
    /\ man.state = "Idle"
    /\ man.timer.elapsed > 0
    /\ delta = 8

\* The frame timer of an entity with `fps` frames a second, `t`, runs out in
\* a tick of `d`.
Expires(t, d, fps) == ~t.finished /\ fps * (t.elapsed + d) >= 60

FreshTimer == [elapsed |-> 0, finished |-> FALSE]

\* C26: an animation system changes the frame index only in a tick in
\* which the frame timer runs out, and whenever it advances the frame (also
\* from the last frame back to the first) it leaves a fresh timer of 1/fps
\* seconds: for the man, the stereo and the fireplace alike.
C26_AdvanceResetsTimer ==
    [][/\ Step("theman_handle_animations")
            => LET out == Expires(man.timer, delta, 10)
               IN  /\ man'.atlas # man.atlas => (out /\ man'.timer = FreshTimer)
                   /\ (out /\ man.state # "Idle" /\ man.atlas.some)
                         => /\ man'.atlas.index # man.atlas.index
                            /\ man'.timer = FreshTimer
       /\ Step("handle_animations")
            => LET fr  == furn[focus]
                   out == Expires(fr.timer, delta,
                                  IF focus = "fireplace" THEN 6 ELSE 4)
               IN  /\ furn'[focus].atlas # fr.atlas
                         => (out /\ furn'[focus].timer = FreshTimer)
                   /\ (out /\ fr.state = "Running" /\ fr.atlas.some)
                         => /\ furn'[focus].atlas.index # fr.atlas.index
                            /\ furn'[focus].timer = FreshTimer]_vars

\* C26's case: the stereo's animation wrapped from its last frame to the
\* first in this tick, and its timer is fresh.
C26_Witness ==
    /\ focus = "stereo"
    /\ {"handle_animations", "handle_interaction"} \subseteq ran
    /\ obs.moved
    /\ obs.matching = 0
    /\ furn["stereo"].state = "Running"
    /\ furn["stereo"].atlas.index = 0
    /\ furn["stereo"].timer = FreshTimer

\* C27: idle_action mirrors the sprite only while the man is Idle and only
\* when five seconds have passed since he last entered Idle (counted from
\* the start of the frame in which he did), however briefly he had left
\* Idle and in whatever order the systems ran; no other system than
\* idle_action and trigger_animation changes the mirroring.
C27_FlipAfterFiveIdleSeconds ==
    [][/\ (Step("idle_action") /\ man'.flip_x # man.flip_x)
            => /\ man.state = "Idle"
               /\ obs.sinceIdle >= IDLE_PERIOD
       /\ man'.flip_x # man.flip_x
            => (Step("idle_action") \/ Step("trigger_animation"))]_vars

\* C28: handle_audio queues at most one footstep sound in a tick, and only
\* when it finds the man Walking and the step timer, advanced by the
\* frame's delta, has reached its duration; no other system queues one.
\* The sounds come in turn from the left and the right pool, the first from
\* the left, each a sample the pool holds, whatever the man did between two
\* of them.
C28_FootstepsAlternate ==
    [][/\ Len(commands') > Len(commands) => Step("handle_audio")
       /\ Step("handle_audio") =>
             LET new == SubSeq(commands', Len(commands) + 1, Len(commands'))
             IN  /\ Len(new) <= 1
                 /\ new # <<>> =>
                       /\ man.state = "Walking"
                       /\ man.step.elapsed + 2 * delta >= man.step.duration
                       /\ new[1].op = "spawn_audio"
                       /\ new[1].pool \in {"left_steps", "right_steps"}
                       /\ new[1].pool # obs.lastPool
                       /\ obs.lastPool = "none" => new[1].pool = "left_steps"
                       /\ new[1].sample \in 1..AudioAssets[new[1].pool]]_vars

\* The man walked, stopped or acted, and walked again: the first footstep
\* after the interruption is of the right foot.
C28_Witness ==
    /\ obs.resumed
    /\ commands # <<>>
    /\ commands[Len(commands)].pool = "right_steps"

\* C29: in every state in which the man is Walking, the sprite is mirrored
\* if and only if his Direction is Left, whatever triggers were applied and
\* whatever flips idle_action made before.
C29_WalkingFacesDirection ==
    man.state = "Walking" => (man.flip_x <=> man.direction = "Left")

\* idle_action flipped the sprite in this tick, and trigger_animation then
\* set the man Walking Left.
C29_Witness ==
    /\ obs.flipped
    /\ man.state = "Walking"
    /\ man.direction = "Left"
    /\ man.flip_x

\* C30: when a tick has ended and trigger_animation has read every trigger
\* handle_keys wrote, a man who is Walking walks in a direction whose arrow
\* key is held down.
C30_WalksWhileKeyHeld ==
    (/\ phase = "end"
     /\ MessagesRead(triggers, trigCursor) = <<>>
     /\ man.state = "Walking")
       => ArrowKey(man.direction) \in keyboard.pressed

\* C31: in the shipped layout the man, who moves along x only, is never
\* within reach of the stereo (reckoned from the centres' distances), so his
\* InRange never names the stereo, the stereo never carries a Highlight, no
\* InteractionEvent with the stereo's id is in the message buffers, and the
\* stereo stays Off, silent and on its first showing.
C31_StereoOutOfReach ==
    /\ man.y = InitMan(layout.manX).y
    /\ ~Near(man.x, man.y, "stereo")
    /\ inRange # "stereo"
    /\ ~highlight["stereo"].some
    /\ \A i \in 1..Len(events.a) : events.a[i].body # INTERACTABLE_ID("stereo")
    /\ \A i \in 1..Len(events.b) : events.b[i].body # INTERACTABLE_ID("stereo")
    /\ furn["stereo"].state = "Off"
    /\ furn["stereo"].sink = "paused"
    /\ furn["stereo"].first

\* The man stands below the stereo, inside its width; in this tick
\* detect_overlaps looked at him there, ArrowUp went down and handle_keys
\* and the stereo's handle_interaction ran.
C31_Witness ==
    /\ focus = "stereo"
    /\ 2 * Abs(man.x - layout.stereo[1]) <= Interactor.width + Interactable("stereo").width
    /\ "ArrowUp" \in keyboard.just_pressed
    /\ {"detect_overlaps", "handle_keys", "handle_interaction"} \subseteq ran
    /\ obs.seenX = man.x

=============================================================================
